---- MODULE Spec2Model ----
(***************************************************************************)
(* Model of the keyword opportunity analyzer of src/old-way.py:            *)
(* KeywordOpportunityAnalyzer.load_keyword_data, analyze_keywords,         *)
(* calculate_opportunity_score, generate_summary and export_results.       *)
(*                                                                         *)
(* Representation.  Text is a sequence of one-character strings, so that   *)
(* str.replace, str.endswith and the parse of pd.to_numeric are computed   *)
(* on the characters.  A number is an integer count of hundredths          *)
(* (1200 searches = 120000, competition 0.1 = 10, a bid of 2.50 = 250);    *)
(* the texts of the model carry at most two decimals.  A score is an       *)
(* integer count of hundredths too (65.63 = 6563), which is the            *)
(* round(..., 2) of the source.  A table cell is a record [k, s, n]:       *)
(* k = "str" with text s, k = "num" with number n, or k = "nan".           *)
(***************************************************************************)
EXTENDS Integers, Sequences, FiniteSets, TLC

VARIABLES
    file,       \* the CSV export on disk: [readable, columns, rows]
    thresholds, \* self.min_search_volume, self.max_competition, self.min_cpc
    df,         \* the caller's DataFrame returned by load_keyword_data, or NoTable
    calls,      \* outcome of each analyze_keywords call on df since it was loaded
    summary,    \* dict returned by the last generate_summary, or NoSummary
    written,    \* [requested, name, stamp] of the last export_results, or NoFile
    err,        \* exception the last operation raised to its caller, or NoError
    argA, argB, \* two argument triples for calculate_opportunity_score
    resA, resB  \* the scores returned for argA and argB, or NoScore

vars == <<file, thresholds, df, calls, summary, written, err, argA, argB, resA, resB>>

\* ------------------------------------------------------------------ bounds
MaxRows == 2
MaxCalls == 2

\* -------------------------------------------------------------------- text
Digits == {"0", "1", "2", "3", "4", "5", "6", "7", "8", "9"}

DigitVal(c) ==
    CASE c = "0" -> 0 [] c = "1" -> 1 [] c = "2" -> 2 [] c = "3" -> 3
      [] c = "4" -> 4 [] c = "5" -> 5 [] c = "6" -> 6 [] c = "7" -> 7
      [] c = "8" -> 8 [] c = "9" -> 9

\* Variant of StrReplace that removes nothing
StrReplaceKeeps(s, ch) == s

\* str.replace(ch, ''): every occurrence of the character is removed (the
\* pattern is one character, taken literally: ',' or '$')
StrReplace(s, ch) == SelectSeq(s, LAMBDA c : c # ch)

\* str.endswith(suffix)
EndsWith(s, suffix) ==
    /\ Len(s) >= Len(suffix)
    /\ SubSeq(s, Len(s) - Len(suffix) + 1, Len(s)) = suffix

\* s contains t as a contiguous run of characters
Contains(s, t) ==
    \E i \in 1..(Len(s) - Len(t) + 1) : SubSeq(s, i, i + Len(t) - 1) = t

AllDigits(s) == \A i \in 1..Len(s) : s[i] \in Digits

RECURSIVE DigitsValue(_)
DigitsValue(s) ==
    IF s = <<>> THEN 0
    ELSE 10 * DigitsValue(SubSeq(s, 1, Len(s) - 1)) + DigitVal(s[Len(s)])

\* ------------------------------------------------------------------- cells
Str(s) == [k |-> "str", s |-> s, n |-> 0]
Num(n) == [k |-> "num", s |-> <<>>, n |-> n]
NaN == [k |-> "nan", s |-> <<>>, n |-> 0]

DotAt(s) == IF \E i \in 1..Len(s) : s[i] = "."
            THEN CHOOSE i \in 1..Len(s) : s[i] = "." /\ \A j \in 1..(i - 1) : s[j] # "."
            ELSE Len(s) + 1

\* The parse of one text by pd.to_numeric(errors='coerce'): digits with an
\* optional decimal point give the number, anything else is coerced to NaN.
ParseNumber(s) ==
    LET d == DotAt(s)
        ip == SubSeq(s, 1, d - 1)
        fp == SubSeq(s, d + 1, Len(s))
    IN  IF AllDigits(ip) /\ AllDigits(fp) /\ Len(ip) + Len(fp) > 0 /\ Len(fp) <= 2
        THEN Num(100 * DigitsValue(ip)
                 + (IF Len(fp) = 0 THEN 0
                    ELSE IF Len(fp) = 1 THEN 10 * DigitsValue(fp)
                    ELSE DigitsValue(fp)))
        ELSE NaN

\* pd.to_numeric(series, errors='coerce') on one cell
ToNumeric(c) ==
    CASE c.k = "num" -> c
      [] c.k = "nan" -> NaN
      [] c.k = "str" -> ParseNumber(c.s)

\* series.str.replace(ch, '') on one cell of an object column: a cell that
\* is not text gives NaN
CellStrReplace(c, ch) == IF c.k = "str" THEN Str(StrReplace(c.s, ch)) ELSE NaN

\* ---------------------------------------------------------------- the file
RequiredColumns ==
    {"Keyword", "Avg. monthly searches", "Competition", "Top of page bid (low range)"}

\* Texts a keyword planner export holds in each column
VolumeTexts == { <<"1", ",", "2", "0", "0">>, <<"5", "0", "0">> }
CompetitionTexts == { <<"0", ".", "1">>, <<"L", "o", "w">> }
BidTexts == { <<"$", "2", ".", "5", "0">>, <<"2", ".", "5">>, <<>> }

FileRows == [vol : VolumeTexts, comp : CompetitionTexts, bid : BidTexts]

FileTables(n) == UNION { [1..m -> FileRows] : m \in 0..n }

\* Texts pd.read_csv reads as a missing value (of its default na_values)
NaStrings == { <<>>, <<"N", "/", "A">> }

\* The keyword of the i-th row of the export; keywords are distinct texts
KeywordText(i) == <<"k", "w">> \o << CHOOSE c \in Digits : DigitVal(c) = i >>

\* ---------------------------------------------------------------- read_csv
IsNumericText(s) == s \notin NaStrings /\ ParseNumber(s).k = "num"

\* Column type inference of pd.read_csv: a column whose every cell is a
\* number or a missing value is numeric; any other column is an object
\* column of texts (missing values are NaN in both); a column of no rows
\* is an object column.
InferDtype(texts) ==
    IF texts # <<>> /\ \A i \in 1..Len(texts) : texts[i] \in NaStrings \/ IsNumericText(texts[i])
    THEN "numeric" ELSE "object"

ReadCell(s, dtype) ==
    IF s \in NaStrings THEN NaN
    ELSE IF dtype = "numeric" THEN ParseNumber(s) ELSE Str(s)

ReadCsv(f) ==
    LET n == Len(f.rows)
        dv == InferDtype([i \in 1..n |-> f.rows[i].vol])
        dc == InferDtype([i \in 1..n |-> f.rows[i].comp])
        db == InferDtype([i \in 1..n |-> f.rows[i].bid])
    IN  [dtype |-> [vol |-> dv, comp |-> dc, bid |-> db],
         rows |-> [i \in 1..n |->
                     [index |-> i,
                      Keyword |-> KeywordText(i),
                      vol |-> ReadCell(f.rows[i].vol, dv),
                      comp |-> ReadCell(f.rows[i].comp, dc),
                      bid |-> ReadCell(f.rows[i].bid, db)]]]

\* ------------------------------------------------------- sentinel values
NoTable == [dtype |-> [vol |-> "none", comp |-> "none", bid |-> "none"], rows |-> <<>>]
NoSummary == [total_opportunities |-> 0 - 1, avg_search_volume |-> NaN,
              avg_competition |-> NaN, avg_opportunity_score |-> NaN,
              top_keywords |-> <<>>]
NoFile == [requested |-> <<>>, name |-> <<>>, stamp |-> <<>>]
NoError == [op |-> "none", type |-> "none", msg |-> <<>>]
NoScore == [returned |-> FALSE, score |-> 0]

\* ------------------------------------------------------ load_keyword_data
\* The outcome of load_keyword_data: the table, or the exception it raises.
\* Both the failure of pd.read_csv and the ValueError of the column check
\* are caught by "except Exception" and raised again as a plain Exception.
load_keyword_data(f) ==
    IF ~f.readable
    THEN [raised |-> [op |-> "load_keyword_data", type |-> "Exception",
                      msg |-> <<"Error loading keyword data: ", "No such file or directory">>],
          table |-> NoTable]
    ELSE IF ~(\A col \in RequiredColumns : col \in f.columns)
    THEN [raised |-> [op |-> "load_keyword_data", type |-> "Exception",
                      msg |-> <<"Error loading keyword data: ", "CSV must contain columns: ">>],
          table |-> NoTable]
    ELSE [raised |-> NoError, table |-> ReadCsv(f)]

\* -------------------------------------------- calculate_opportunity_score
\* np.log10 on the whole numbers the model uses, in millionths (rounded
\* down): log10(1200) = 3.079181...
Log10Micro(v) ==
    CASE v = 1 -> 0
      [] v = 2 -> 301029
      [] v = 9 -> 954242
      [] v = 10 -> 1000000
      [] v = 500 -> 2698970
      [] v = 999 -> 2999565
      [] v = 1000 -> 3000000
      [] v = 1200 -> 3079181
      [] v = 5000 -> 3698970
      [] v = 10000 -> 4000000
      [] v = 100000 -> 5000000

Max(x, y) == IF x >= y THEN x ELSE y
Min(x, y) == IF x <= y THEN x ELSE y

\* Variant of calculate_opportunity_score without the cap on the CPC score
calculate_opportunity_score_uncapped(search_volume, competition, cpc) ==
    LET volume_score == Log10Micro(Max(search_volume, 100) \div 100) \div 5
        competition_score == 1000000 - 10000 * competition
        cpc_score == 1000 * cpc
        opportunity_score ==
            (volume_score * 4 + competition_score * 4 + cpc_score * 2) \div 10
    IN  (opportunity_score + 50) \div 100

\* Arguments in hundredths, the three partial scores and their weighted sum
\* in millionths, the result in hundredths: round(opportunity_score * 100, 2)
calculate_opportunity_score(search_volume, competition, cpc) ==
    LET volume_score == Log10Micro(Max(search_volume, 100) \div 100) \div 5
        competition_score == 1000000 - 10000 * competition
        cpc_score == Min(1000 * cpc, 1000000)
        opportunity_score ==
            (volume_score * 4 + competition_score * 4 + cpc_score * 2) \div 10
    IN  (opportunity_score + 50) \div 100

\* --------------------------------------------------------- analyze_keywords
\* A comparison with NaN is False
Ge(c, n) == c.k = "num" /\ c.n >= n
Le(c, n) == c.k = "num" /\ c.n <= n

\* Variant of Mask that leaves out the CPC threshold
MaskWithoutCpc(r, th) ==
    /\ Ge(r.vol, th.min_search_volume)
    /\ Le(r.comp, th.max_competition)

\* The filter mask of one row of the cleaned table
Mask(r, th) ==
    /\ Ge(r.vol, th.min_search_volume)
    /\ Le(r.comp, th.max_competition)
    /\ Ge(r.bid, th.min_cpc)

\* opportunities = df[mask].copy(), with the 'Opportunity Score' column
Scored(rows, th) ==
    LET kept == SelectSeq(rows, LAMBDA r : Mask(r, th))
    IN  [i \in 1..Len(kept) |->
            [index |-> kept[i].index, Keyword |-> kept[i].Keyword,
             vol |-> kept[i].vol, comp |-> kept[i].comp, bid |-> kept[i].bid,
             score |-> calculate_opportunity_score(kept[i].vol.n, kept[i].comp.n,
                                                   kept[i].bid.n)]]

Descending(s) == \A i \in 1..(Len(s) - 1) : s[i].score >= s[i + 1].score

\* sort_values('Opportunity Score', ascending=False) with the default
\* kind='quicksort', which is not a stable sort: the rows come out by
\* descending score, rows of equal score in an order the sort does not fix.
SortValues(rows) ==
    LET n == Len(rows)
        perms == { p \in [1..n -> 1..n] : \A i, j \in 1..n : p[i] = p[j] => i = j }
    IN  { s \in { [i \in 1..n |-> rows[p[i]]] : p \in perms } : Descending(s) }

\* The three cleaning assignments, in the order of the source.  A column
\* that is not an object column has no .str accessor: AttributeError.
CleanCompetition(t) ==
    [dtype |-> [t.dtype EXCEPT !.comp = "numeric"],
     rows |-> [i \in 1..Len(t.rows) |->
                 [t.rows[i] EXCEPT !.comp = ToNumeric(t.rows[i].comp)]]]

CleanVolume(t) ==
    [dtype |-> [t.dtype EXCEPT !.vol = "numeric"],
     rows |-> [i \in 1..Len(t.rows) |->
                 [t.rows[i] EXCEPT !.vol = ToNumeric(CellStrReplace(t.rows[i].vol, ","))]]]

CleanBid(t) ==
    [dtype |-> [t.dtype EXCEPT !.bid = "numeric"],
     rows |-> [i \in 1..Len(t.rows) |->
                 [t.rows[i] EXCEPT !.bid = ToNumeric(CellStrReplace(t.rows[i].bid, "$"))]]]

\* Whether a column has the .str accessor
HasStr(dtype) == dtype = "object"

AttributeError ==
    [op |-> "analyze_keywords", type |-> "AttributeError",
     msg |-> <<"Can only use .str accessor with string values!">>]

\* The outcomes of analyze_keywords(df): the exception raised (or NoError),
\* the caller's table as the call leaves it, and the frame returned.  The
\* cleaning assignments write into the caller's df.  On a frame of no rows
\* DataFrame.apply(axis=1) gives an empty Series, so the score column is
\* added to an empty result as well.
analyze_keywords(t, th) ==
    LET t1 == CleanCompetition(t)
        t2 == CleanVolume(t1)
        t3 == CleanBid(t2)
    IN  IF ~HasStr(t1.dtype.vol)
        THEN { [raised |-> AttributeError, table |-> t1, rows |-> <<>>] }
        ELSE IF ~HasStr(t2.dtype.bid)
        THEN { [raised |-> AttributeError, table |-> t2, rows |-> <<>>] }
        ELSE { [raised |-> NoError, table |-> t3, rows |-> s] :
                 s \in SortValues(Scored(t3.rows, th)) }

\* -------------------------------------------------------- generate_summary
RECURSIVE Sum(_)
Sum(values) == IF values = <<>> THEN 0 ELSE Head(values) + Sum(Tail(values))

\* Series.mean(): NaN for no rows; kept to whole hundredths
Mean(values) == IF values = <<>> THEN NaN ELSE Num(Sum(values) \div Len(values))

Head5(rows) == SubSeq(rows, 1, Min(Len(rows), 5))

generate_summary(opportunities) ==
    [total_opportunities |-> Len(opportunities),
     avg_search_volume |->
         Mean([i \in 1..Len(opportunities) |-> opportunities[i].vol.n]),
     avg_competition |->
         Mean([i \in 1..Len(opportunities) |-> opportunities[i].comp.n]),
     avg_opportunity_score |->
         Mean([i \in 1..Len(opportunities) |-> opportunities[i].score]),
     top_keywords |-> [i \in 1..Len(Head5(opportunities)) |-> opportunities[i].Keyword]]

\* ---------------------------------------------------------- export_results
RECURSIVE Pad(_, _)
\* the decimal digits of n, zero padded to the given width (%Y, %m, %d, ...)
Pad(n, width) ==
    IF width = 0 THEN <<>>
    ELSE Pad(n \div 10, width - 1) \o << CHOOSE c \in Digits : DigitVal(c) = n % 10 >>

\* datetime.strftime('%Y%m%d_%H%M%S')
Strftime(t) ==
    Pad(t.year, 4) \o Pad(t.month, 2) \o Pad(t.day, 2) \o <<"_">>
        \o Pad(t.hour, 2) \o Pad(t.minute, 2) \o Pad(t.second, 2)

DotCsv == <<".", "c", "s", "v">>

\* The file export_results writes: timestamp and filename are computed and
\* not used; '.csv' is appended to a path that does not end with it.
export_results(output_filepath, now) ==
    LET timestamp == Strftime(now)
        filename == <<"k", "e", "y", "w", "o", "r", "d", "_", "o", "p", "p", "o", "r",
                      "t", "u", "n", "i", "t", "i", "e", "s", "_">> \o timestamp \o DotCsv
        path == IF ~EndsWith(output_filepath, DotCsv)
                THEN output_filepath \o DotCsv ELSE output_filepath
    IN  [requested |-> output_filepath, name |-> path, stamp |-> timestamp]

\* ------------------------------------------------------------ the pipeline
OkFiles ==
    { [readable |-> TRUE, columns |-> RequiredColumns, rows |-> r] :
        r \in FileTables(MaxRows) }

BadFiles ==
    { [readable |-> FALSE, columns |-> RequiredColumns, rows |-> <<>>] }
    \cup { [readable |-> TRUE, columns |-> RequiredColumns \ {c}, rows |-> r] :
             c \in RequiredColumns, r \in FileTables(1) }

\* Threshold triples given to __init__ (the first is its defaults)
ThresholdChoices ==
    { [min_search_volume |-> 100000, max_competition |-> 30, min_cpc |-> 50],
      [min_search_volume |-> 100000, max_competition |-> 5, min_cpc |-> 50],
      [min_search_volume |-> 100000, max_competition |-> 30, min_cpc |-> 300] }

OutputNames ==
    { <<"o", "u", "t">>, <<"o", "u", "t">> \o DotCsv, <<"o", "u", "t", ".", "t", "x", "t">> }

Clock ==
    { [year |-> 2024, month |-> 3, day |-> 9, hour |-> 14, minute |-> 5, second |-> 7] }

IdleArgs == [volume |-> 0, competition |-> 0, cpc |-> 0]

Init ==
    /\ file \in OkFiles \cup BadFiles
    /\ thresholds \in ThresholdChoices
    /\ df = NoTable
    /\ calls = <<>>
    /\ summary = NoSummary
    /\ written = NoFile
    /\ err = NoError
    /\ argA = IdleArgs /\ argB = IdleArgs
    /\ resA = NoScore /\ resB = NoScore

\* df = analyzer.load_keyword_data(path)
Load ==
    LET out == load_keyword_data(file)
    IN  /\ df' = IF out.raised = NoError THEN out.table ELSE df
        /\ calls' = IF out.raised = NoError THEN <<>> ELSE calls
        /\ err' = out.raised
        /\ UNCHANGED <<file, thresholds, summary, written, argA, argB, resA, resB>>

\* opportunities = analyzer.analyze_keywords(df)
Analyze ==
    /\ df # NoTable
    /\ Len(calls) < MaxCalls
    /\ \E out \in analyze_keywords(df, thresholds) :
         /\ df' = out.table
         /\ calls' = Append(calls, [raised |-> out.raised.type, rows |-> out.rows])
         /\ err' = out.raised
    /\ UNCHANGED <<file, thresholds, summary, written, argA, argB, resA, resB>>

\* The frame the caller holds: the result of the latest call that returned
Returned == { i \in 1..Len(calls) : calls[i].raised = "none" }
Opportunities == calls[CHOOSE i \in Returned : \A j \in Returned : j <= i].rows

\* summary = analyzer.generate_summary(opportunities)
Summary ==
    /\ Returned # {}
    /\ summary' = generate_summary(Opportunities)
    /\ err' = NoError
    /\ UNCHANGED <<file, thresholds, df, calls, written, argA, argB, resA, resB>>

\* analyzer.export_results(opportunities, output_filepath)
Export ==
    /\ Returned # {}
    /\ \E name \in OutputNames, now \in Clock :
         written' = export_results(name, now)
    /\ err' = NoError
    /\ UNCHANGED <<file, thresholds, df, calls, summary, argA, argB, resA, resB>>

Next == Load \/ Analyze \/ Summary \/ Export

Spec == Init /\ [][Next]_vars

\* --------------------------------------- calculate_opportunity_score alone
\* Valid records: volume >= 0, competition in [0, 1], cpc >= 0 (hundredths)
ScoreVolumes == { 0, 100, 1000, 99900, 100000, 120000, 10000000 }
ScoreCompetitions == { 0, 10, 30, 100 }
ScoreCpcs == { 0, 50, 250, 1000, 1001, 5000 }

ValidRecords ==
    [volume : ScoreVolumes, competition : ScoreCompetitions, cpc : ScoreCpcs]

IdleFile == [readable |-> FALSE, columns |-> RequiredColumns, rows |-> <<>>]

ScoreInit ==
    /\ argA \in ValidRecords /\ argB \in ValidRecords
    /\ resA = NoScore /\ resB = NoScore
    /\ file = IdleFile
    /\ thresholds = [min_search_volume |-> 100000, max_competition |-> 30, min_cpc |-> 50]
    /\ df = NoTable
    /\ calls = <<>>
    /\ summary = NoSummary
    /\ written = NoFile
    /\ err = NoError

ScoreA ==
    /\ ~resA.returned
    /\ resA' = [returned |-> TRUE,
                score |-> calculate_opportunity_score(argA.volume, argA.competition,
                                                      argA.cpc)]
    /\ UNCHANGED <<file, thresholds, df, calls, summary, written, err, argA, argB, resB>>

ScoreB ==
    /\ ~resB.returned
    /\ resB' = [returned |-> TRUE,
                score |-> calculate_opportunity_score(argB.volume, argB.competition,
                                                      argB.cpc)]
    /\ UNCHANGED <<file, thresholds, df, calls, summary, written, err, argA, argB, resA>>

ScoreNext == ScoreA \/ ScoreB

ScoreSpec == ScoreInit /\ [][ScoreNext]_vars

\* ================================================================== claims
\* The normalization the specification prescribes, on the texts of the
\* export: strip the grouping commas or the currency symbol, then parse.
NormVolume(row) == ParseNumber(SelectSeq(row.vol, LAMBDA c : c # ","))
NormCompetition(row) == ParseNumber(row.comp)
NormCpc(row) ==
    ParseNumber(IF row.bid # <<>> /\ Head(row.bid) = "$" THEN Tail(row.bid) ELSE row.bid)

AllPresent(row) ==
    /\ NormVolume(row).k = "num"
    /\ NormCompetition(row).k = "num"
    /\ NormCpc(row).k = "num"

MeetsThresholds(row) ==
    /\ AllPresent(row)
    /\ NormVolume(row).n >= thresholds.min_search_volume
    /\ NormCompetition(row).n <= thresholds.max_competition
    /\ NormCpc(row).n >= thresholds.min_cpc

FileIndexes == 1..Len(file.rows)
InResult(i, call) == \E j \in 1..Len(call.rows) : call.rows[j].index = i

C2_NeverAborts ==
    calls # <<>> =>
        /\ calls[1].raised = "none"
        /\ \A i \in FileIndexes : ~AllPresent(file.rows[i]) => ~InResult(i, calls[1])

\* C3: the result is ordered by Opportunity Score descending, and rows of
\* equal score keep the relative order of the input table.
C3_StableDescending ==
    \A k \in 1..Len(calls) :
        LET rows == calls[k].rows
        IN  \A i, j \in 1..Len(rows) :
                i < j =>
                    /\ rows[i].score >= rows[j].score
                    /\ rows[i].score = rows[j].score => rows[i].index < rows[j].index

\* C4: a second analyze_keywords call with the very table passed to the
\* first succeeds and returns the same rows, scores and order.
C4_Idempotent ==
    (Len(calls) >= 2 /\ calls[1].raised = "none") => calls[2] = calls[1]

\* C5: when no row of the input passes the filter, analyze_keywords
\* followed by generate_summary completes without raising and the summary
\* has a record count of zero and no top keywords.
C5_EmptyResult ==
    (calls # <<>> /\ \A i \in FileIndexes : ~MeetsThresholds(file.rows[i])) =>
        /\ calls[1].raised = "none"
        /\ summary # NoSummary =>
              summary.total_opportunities = 0 /\ summary.top_keywords = <<>>

\* C6: when required columns are absent, load_keyword_data raises a named,
\* non-generic error, of a type other than the one it raises for an
\* unreadable file, and no table is returned and no row processed.
C6_StructuralError ==
    (err.op = "load_keyword_data" /\ file.readable /\ ~(RequiredColumns \subseteq file.columns)) =>
        /\ err.type # "Exception"
        /\ err.type # load_keyword_data([file EXCEPT !.readable = FALSE]).raised.type
        /\ df = NoTable
        /\ calls = <<>>

SameBut(x, y, field) ==
    \A f \in {"volume", "competition", "cpc"} \ {field} : x[f] = y[f]

\* C7: on valid records the score is >= 0, non-decreasing in volume,
\* non-increasing in competition, non-decreasing in cpc (the other two held
\* fixed), and constant in cpc for cpc >= 10.
C7_ScoreMonotone ==
    (resA.returned /\ resB.returned) =>
        /\ resA.score >= 0
        /\ (SameBut(argA, argB, "volume") /\ argA.volume <= argB.volume)
              => resA.score <= resB.score
        /\ (SameBut(argA, argB, "competition") /\ argA.competition <= argB.competition)
              => resA.score >= resB.score
        /\ (SameBut(argA, argB, "cpc") /\ argA.cpc <= argB.cpc)
              => resA.score <= resB.score
        /\ (SameBut(argA, argB, "cpc") /\ argA.cpc >= 1000 /\ argB.cpc >= 1000)
              => resA.score = resB.score

\* C7 witness: two scored records that differ in cpc alone, both at or above
\* the cap of 10, with a volume above 1 and a competition above 0
C7_Witness ==
    /\ resA.returned /\ resB.returned
    /\ SameBut(argA, argB, "cpc")
    /\ argA.cpc >= 1000 /\ argB.cpc > argA.cpc
    /\ argA.volume > 100 /\ argA.competition > 0

IsExampleRow(row) ==
    /\ row.vol = <<"1", ",", "2", "0", "0">>
    /\ row.comp = <<"0", ".", "1">>
    /\ row.bid = <<"2", ".", "5">>

DefaultThresholds ==
    /\ thresholds.min_search_volume = 100000
    /\ thresholds.max_competition = 30
    /\ thresholds.min_cpc = 50

ExampleScore(k, s) ==
    \A i \in FileIndexes :
        IsExampleRow(file.rows[i]) =>
            \E j \in 1..Len(calls[k].rows) :
                calls[k].rows[j].index = i /\ calls[k].rows[j].score = s

C9_TimestampedCsv ==
    written # NoFile =>
        /\ EndsWith(written.name, DotCsv)
        /\ ~Contains(written.requested, <<".">>) => Contains(written.name, written.stamp)

\* C10: calls to analyze_keywords, generate_summary and export_results leave
\* the caller's table (values and column types) and the thresholds as they
\* were.
C10_PureTransform ==
    [][(Analyze \/ Summary \/ Export) => (df' = df /\ thresholds' = thresholds)]_vars

====
